---- MODULE Spec2Model ----
(***************************************************************************)
(* Model of the Cherenkov radiation simulation:                            *)
(*   src/cherenkov_simulation.py  InputDialog.validate_and_run,            *)
(*                                run_simulation                           *)
(*   src/animation.py             simulation, draw_angle_lines,            *)
(*                                compute_intensity (source selection),    *)
(*                                animate                                  *)
(*                                                                         *)
(* Units.  The code works on Python floats; the model keeps every quantity *)
(* as an exact integer multiple of a fixed unit:                           *)
(*   speeds (v_particle, c_medium, text fields)  tenths                    *)
(*   positions (x, y, window bounds)             tenths   x = frame - 40   *)
(*   circle alpha                                hundredths  20 - age      *)
(*   circle radius                               thousandths               *)
(*   phase offset age * wave_speed               hundredths                *)
(* The float comparisons the code makes at the thresholds agree with the   *)
(* exact ones: 0.2 - 17*0.01 evaluates to 0.03 (<= 0.03 is True), 0.2 -    *)
(* 16*0.01 to 0.04000000000000001, and 120*0.1 - 4 to 8.0.                 *)
(* An angle is kept as the reduced ratio whose arccos it is.               *)
(***************************************************************************)
EXTENDS Integers, Sequences, FiniteSets, TLC

VARIABLES
    pc,              \* "dialog" | "running" | "saved"
    clicks,          \* number of times the Start button has been clicked
    warning,         \* message the last click showed in a QMessageBox, or ""
    particle_speed,  \* QLineEdit text read by the last click
    medium_speed,    \* QLineEdit text read by the last click
    sim_calls,       \* number of calls of simulation(v, c)
    v, c,            \* the arguments of simulation(v, c)
    c_medium, v_particle, theta, n_medium,   \* locals of simulation
    frame,           \* the next frame index FuncAnimation hands to animate
    particle,        \* data of the particle marker: <<>> or <<(x, y)>>
    particle_trail,  \* list of recent positions
    angle_lines,     \* the two cone lines
    waves,           \* list of wavefront dicts
    patches,         \* the Circle patches attached to the axes
    ncircles,        \* number of Circle objects created so far (identity)
    intensity_src,   \* per-wave inputs of the last compute_intensity
    pass_copy,       \* waves.copy() taken by the last update loop
    visited,         \* waves the last update loop has iterated over
    removed          \* waves the last update loop has removed

vars == <<pc, clicks, warning, particle_speed, medium_speed, sim_calls, v, c,
          c_medium, v_particle, theta, n_medium, frame, particle,
          particle_trail, angle_lines, waves, patches, ncircles,
          intensity_src, pass_copy, visited, removed>>

simVars == <<frame, particle, particle_trail, angle_lines, waves, patches,
             ncircles, intensity_src, pass_copy, visited, removed>>

(***************************************************************************)
(* Bounds of the model                                                     *)
(***************************************************************************)
MaxClicks == 2      \* clicks on the Start button that are explored
MaxTenths == 11     \* largest number typed into a field, in tenths

(***************************************************************************)
(* Helpers                                                                 *)
(***************************************************************************)
Max(a, b) == IF a > b THEN a ELSE b

RECURSIVE GCD(_, _)
GCD(a, b) == IF b = 0 THEN a ELSE GCD(b, a % b)

\* a / b for positive a, b, as a reduced fraction
Ratio(a, b) == <<a \div GCD(a, b), b \div GCD(a, b)>>

(***************************************************************************)
(* The parameter dialog                                                    *)
(***************************************************************************)
Num(n) == [kind |-> "num", val |-> n]

NaNText == [kind |-> "nan", val |-> 0]

BadText == [kind |-> "bad", val |-> 0]

\* what can be typed into a QLineEdit: a decimal number (in tenths), the
\* text "nan", or a text float() rejects
Texts == {Num(n) : n \in -1..MaxTenths} \cup {NaNText, BadText}

\* float(text) raises ValueError
FloatRaises(t) == t.kind = "bad"

\* 0 < x on floats; every comparison with nan is False
Positive(t) == t.kind = "num" /\ 0 < t.val

\* x < 1
BelowOne(t) == t.kind = "num" /\ t.val < 10

\* x <= 1
AtMostOne(t) == t.kind = "num" /\ t.val <= 10

\* 0 < c_medium < 1 and 0 < v_particle <= 1
InRange(vt, ct) ==
    /\ Positive(ct) /\ BelowOne(ct)
    /\ Positive(vt) /\ AtMostOne(vt)

\* variant: v_particle < c_medium
NotFasterStrict(vt, ct) == vt.val < ct.val

\* v_particle <= c_medium
NotFaster(vt, ct) == vt.val <= ct.val

\* the message validate_and_run shows for the two texts, "" when it shows none
ValidationMessage(vt, ct) ==
    IF FloatRaises(vt) \/ FloatRaises(ct)
        THEN "could not convert string to float"
    ELSE IF ~InRange(vt, ct)
        THEN "Speeds must be between 0 and 1"
    ELSE IF NotFaster(vt, ct)
        THEN "Particle speed must exceed medium light speed for Cherenkov radiation"
    ELSE ""

(***************************************************************************)
(* simulation(v, c): parameters                                            *)
(***************************************************************************)
C_MEDIUM == 7

V_PARTICLE == 9

\* c_medium and v_particle as simulation(pv, pc_) sets them
SimCMedium(pv, pc_) == C_MEDIUM

SimVParticle(pv, pc_) == V_PARTICLE

\* theta = arccos(c_medium / v_particle), kept as the ratio
Theta(cm, vp) == Ratio(cm, vp)

\* n_medium = 1 / c_medium, with c_medium in tenths
NMedium(cm) == Ratio(10, cm)

FRAMES == 200

Init ==
    /\ pc = "dialog"
    /\ clicks = 0
    /\ warning = ""
    /\ particle_speed = Num(9)
    /\ medium_speed = Num(7)
    /\ sim_calls = 0
    /\ v = 0 /\ c = 0
    /\ c_medium = 0 /\ v_particle = 0
    /\ theta = <<0, 1>> /\ n_medium = <<0, 1>>
    /\ frame = 0
    /\ particle = <<>>
    /\ particle_trail = <<>>
    /\ angle_lines = <<>>
    /\ waves = <<>>
    /\ patches = <<>>
    /\ ncircles = 0
    /\ intensity_src = <<>>
    /\ pass_copy = <<>>
    /\ visited = <<>>
    /\ removed = <<>>

\* A click on Start with the texts vt, ct in the two fields.
ValidateAndRun(vt, ct) ==
    /\ pc = "dialog"
    /\ clicks < MaxClicks
    /\ clicks' = clicks + 1
    /\ particle_speed' = vt
    /\ medium_speed' = ct
    /\ warning' = ValidationMessage(vt, ct)
    /\ IF ValidationMessage(vt, ct) # ""
          THEN /\ UNCHANGED <<pc, sim_calls, v, c, c_medium, v_particle,
                              theta, n_medium>>
               /\ UNCHANGED simVars
          ELSE \* self.hide(); run_simulation(v_particle, c_medium)
               /\ pc' = "running"
               /\ sim_calls' = sim_calls + 1
               /\ v' = vt.val
               /\ c' = ct.val
               /\ c_medium' = SimCMedium(vt.val, ct.val)
               /\ v_particle' = SimVParticle(vt.val, ct.val)
               /\ theta' = Theta(SimCMedium(vt.val, ct.val),
                                 SimVParticle(vt.val, ct.val))
               /\ n_medium' = NMedium(SimCMedium(vt.val, ct.val))
               /\ frame' = 0
               /\ particle' = <<>>
               /\ particle_trail' = <<>>
               /\ angle_lines' = <<>>
               /\ waves' = <<>>
               /\ patches' = <<>>
               /\ ncircles' = 0
               /\ intensity_src' = <<>>
               /\ pass_copy' = <<>>
               /\ visited' = <<>>
               /\ removed' = <<>>

Click == \E vt \in Texts, ct \in Texts : ValidateAndRun(vt, ct)

(***************************************************************************)
(* animate(frame) and the functions it calls                               *)
(***************************************************************************)
TRAIL_LENGTH == 30

EMIT_PERIOD == 5

CONE_LENGTH == 4

\* x = frame * 0.1 - 4, y = 0
Position(f) == <<f - 40, 0>>

\* variant: the newest entry is popped instead of the oldest one
TrailPushPopLast(trail, pos) ==
    LET appended == Append(trail, pos)
    IN  IF Len(appended) > TRAIL_LENGTH
          THEN SubSeq(appended, 1, Len(appended) - 1)
          ELSE appended

\* particle_trail.append((x, y)); if len(particle_trail) > 30: pop(0)
TrailPush(trail, pos) ==
    LET appended == Append(trail, pos)
    IN  IF Len(appended) > TRAIL_LENGTH THEN Tail(appended) ELSE appended

\* draw_angle_lines(x, y): the old lines are dropped, two new ones of length
\* cone_length leave (x, y) at +theta and -theta
DrawAngleLines(pos, th) ==
    << [from |-> pos, length |-> CONE_LENGTH, angle |-> th, side |-> 1],
       [from |-> pos, length |-> CONE_LENGTH, angle |-> th, side |-> -1] >>

\* variant: frame % 5 == 0 and -8 <= x < 8
EmitCondStrict(f, x) == f % EMIT_PERIOD = 0 /\ -80 <= x /\ x < 80

\* variant: frame % 5 == 0, without the on-screen test
EmitCondNoWindow(f, x) == f % EMIT_PERIOD = 0

\* frame % 5 == 0 and -8 <= x <= 8
EmitCond(f, x) == f % EMIT_PERIOD = 0 /\ -80 <= x /\ x <= 80

\* the dict appended to waves; its Circle is the id-th one created
NewWave(pos, f, id) == [center |-> pos, start_frame |-> f, circle |-> id]

\* plt.Circle((x, y), 0.1, alpha=0.2, ...)
NewCircle(pos, id) == [id |-> id, center |-> pos, radius |-> 100, alpha |-> 20]

\* radius = 0.1 + age * 0.1 * c_medium
Radius(age, cm) == 100 + age * 10 * cm

\* variant: max(0, 0.2 - age * 0.02)
FadeAlphaFast(age) == Max(0, 20 - 2 * age)

\* new_alpha = max(0, 0.2 - age * 0.01)
FadeAlpha(age) == Max(0, 20 - age)

\* cx < -10 or cx > 10 or cy < -8 or cy > 8
OutOfBounds(center) ==
    center[1] < -100 \/ center[1] > 100 \/ center[2] < -80 \/ center[2] > 80

\* variant: new_alpha < 0.03 or <center out of bounds>
RemoveCondStrict(new_alpha, center) == new_alpha < 3 \/ OutOfBounds(center)

\* new_alpha <= 0.03 or <center out of bounds>
RemoveCond(new_alpha, center) == new_alpha <= 3 \/ OutOfBounds(center)

\* list.remove(e): drops the first element equal to e
ListRemove(s, e) ==
    LET i == CHOOSE k \in 1..Len(s) :
                 s[k] = e /\ \A j \in 1..(k - 1) : s[j] # e
    IN  SubSeq(s, 1, i - 1) \o SubSeq(s, i + 1, Len(s))

\* circle.set_radius(r); circle.set_alpha(a) on the Circle with identity id
SetCircle(ps, id, r, a) ==
    [k \in 1..Len(ps) |->
        IF ps[k].id = id THEN [ps[k] EXCEPT !.radius = r, !.alpha = a]
                         ELSE ps[k]]

\* circle.remove(): detaches the Circle with identity id from the axes
DetachCircle(ps, id) == SelectSeq(ps, LAMBDA p : p.id # id)

\* One iteration of the body of "for wave in waves.copy()" on loop state st
\* = [waves, patches, visited, removed].
UpdateWave(wave, f, cm, st) ==
    LET age       == f - wave.start_frame
        radius    == Radius(age, cm)
        new_alpha == FadeAlpha(age)
        resized   == SetCircle(st.patches, wave.circle, radius, new_alpha)
        seen      == Append(st.visited, wave)
    IN  IF RemoveCond(new_alpha, wave.center)
          THEN [waves   |-> ListRemove(st.waves, wave),
                patches |-> DetachCircle(resized, wave.circle),
                visited |-> seen,
                removed |-> Append(st.removed, wave)]
          ELSE [waves   |-> st.waves,
                patches |-> resized,
                visited |-> seen,
                removed |-> st.removed]

\* the iterations i, i+1, ... of the loop over the copy
RECURSIVE UpdateLoop(_, _, _, _, _)
UpdateLoop(copy, i, f, cm, st) ==
    IF i > Len(copy) THEN st
    ELSE UpdateLoop(copy, i + 1, f, cm, UpdateWave(copy[i], f, cm, st))

\* variant: "for wave in waves", the loop runs over the list it removes from
RECURSIVE UpdateLoopLive(_, _, _, _)
UpdateLoopLive(i, f, cm, st) ==
    IF i > Len(st.waves) THEN st
    ELSE UpdateLoopLive(i + 1, f, cm, UpdateWave(st.waves[i], f, cm, st))

UpdateWavesLive(ws, ps, f, cm) ==
    UpdateLoopLive(1, f, cm,
                   [waves |-> ws, patches |-> ps, visited |-> <<>>,
                    removed |-> <<>>])

\* for wave in waves.copy(): ...
UpdateWaves(ws, ps, f, cm) ==
    UpdateLoop(ws, 1, f, cm,
               [waves |-> ws, patches |-> ps, visited |-> <<>>,
                removed |-> <<>>])

\* cx < -8 or cx > 8 or cy < -6 or cy > 6: the wave is skipped
OutOfView(center) ==
    center[1] < -80 \/ center[1] > 80 \/ center[2] < -60 \/ center[2] > 60

\* compute_intensity(frame_number): the waves that contribute to Z, each
\* with its age and its phase offset age * wave_speed, wave_speed =
\* 0.1 * c_medium
IntensitySources(ws, f, cm) ==
    LET inView == SelectSeq(ws, LAMBDA w : ~OutOfView(w.center))
    IN  [k \in 1..Len(inView) |->
            [center |-> inView[k].center,
             age    |-> f - inView[k].start_frame,
             shift  |-> (f - inView[k].start_frame) * cm]]

\* animate(frame), called by FuncAnimation for frame = 0, 1, ..., 199
Animate ==
    /\ pc = "running"
    /\ frame < FRAMES
    /\ LET pos     == Position(frame)
           emit    == EmitCond(frame, pos[1])
           emitted == IF emit
                        THEN Append(waves, NewWave(pos, frame, ncircles + 1))
                        ELSE waves
           drawn   == IF emit
                        THEN Append(patches, NewCircle(pos, ncircles + 1))
                        ELSE patches
           done    == UpdateWaves(emitted, drawn, frame, c_medium)
       IN  /\ particle' = <<pos>>
           /\ particle_trail' = TrailPush(particle_trail, pos)
           /\ angle_lines' = DrawAngleLines(pos, theta)
           /\ ncircles' = IF emit THEN ncircles + 1 ELSE ncircles
           /\ pass_copy' = emitted
           /\ waves' = done.waves
           /\ patches' = done.patches
           /\ visited' = done.visited
           /\ removed' = done.removed
           /\ intensity_src' = IntensitySources(done.waves, frame, c_medium)
    /\ frame' = frame + 1
    /\ UNCHANGED <<pc, clicks, warning, particle_speed, medium_speed,
                   sim_calls, v, c, c_medium, v_particle, theta, n_medium>>

\* anim.save(...) has drawn the last frame; plt.close(); simulation returns
\* to validate_and_run with the dialog hidden
SaveDone ==
    /\ pc = "running"
    /\ frame = FRAMES
    /\ pc' = "saved"
    /\ UNCHANGED <<clicks, warning, particle_speed, medium_speed, sim_calls,
                   v, c, c_medium, v_particle, theta, n_medium>>
    /\ UNCHANGED simVars

Next == Click \/ Animate \/ SaveDone

Spec == Init /\ [][Next]_vars

(***************************************************************************)
(* Properties                                                              *)
(***************************************************************************)
Range(s) == {s[i] : i \in 1..Len(s)}

Min(a, b) == IF a < b THEN a ELSE b

Last(s) == s[Len(s)]

\* the frame index the last call of animate was given
LastFrame == frame - 1

Ticked == pc # "dialog" /\ frame >= 1

\* C1: the angle and the medium light speed a run uses are the ones derived
\* from the pair handed to simulation(v, c): c_medium is c, v_particle is v,
\* the angle is arccos(c / v) and the refractive index 1 / c, in every frame.
C1_UsesSuppliedPair ==
    pc # "dialog" =>
        /\ c_medium = c
        /\ v_particle = v
        /\ theta = Ratio(c, v)
        /\ n_medium = Ratio(10, c)
        /\ \A k \in 1..Len(angle_lines) : angle_lines[k].angle = Ratio(c, v)
        /\ \A k \in 1..Len(patches) :
              \E w \in Range(waves) :
                  /\ w.circle = patches[k].id
                  /\ patches[k].radius =
                         100 + (LastFrame - w.start_frame) * 10 * c

\* 0 < mediumLightSpeed < particleSpeed <= 1 and mediumLightSpeed < 1, on
\* the texts of the two fields
ValidPair(vt, ct) ==
    /\ vt.kind = "num" /\ ct.kind = "num"
    /\ 0 < ct.val /\ ct.val < vt.val /\ vt.val <= 10 /\ ct.val < 10

\* C2: a click with an invalid pair ends in a warning, leaves the
\* simulation unstarted and computes no frame; a click with a valid pair
\* starts the simulation, and it is started once only.  Frames are computed
\* only for a valid pair.
C2_FailFast ==
    /\ [][clicks' = clicks + 1 =>
            IF ValidPair(particle_speed', medium_speed')
              THEN /\ warning' = ""
                   /\ sim_calls = 0 /\ sim_calls' = 1
                   /\ pc' = "running" /\ frame' = 0
              ELSE /\ warning' # ""
                   /\ sim_calls' = sim_calls
                   /\ pc' = "dialog"
                   /\ UNCHANGED simVars]_vars
    /\ [](sim_calls <= 1)
    /\ [](sim_calls = 0 => pc = "dialog" /\ frame = 0 /\ particle = <<>>)
    /\ [](sim_calls = 1 => ValidPair(particle_speed, medium_speed))

C2_Witness ==
    /\ clicks = 2 /\ pc = "saved" /\ sim_calls = 1 /\ frame = FRAMES

\* C3: the tick of frame f appends exactly one wavefront, centred on the
\* particle position (f*0.1 - 4, 0) and with start frame f, iff f mod 5 = 0
\* and -8 <= x <= 8, that is iff f is one of 0, 5, ..., 120; any other tick
\* creates none.
C3_EmissionRule ==
    [][frame' = frame + 1 =>
          LET f == frame
              x == f - 40
              fresh == {w \in Range(waves') : w \notin Range(waves)}
          IN  /\ (f % 5 = 0 /\ -80 <= x /\ x <= 80)
                    <=> f \in {5 * k : k \in 0..24}
              /\ IF f % 5 = 0 /\ -80 <= x /\ x <= 80
                   THEN /\ ncircles' = ncircles + 1
                        /\ Len(pass_copy') = Len(waves) + 1
                        /\ SubSeq(pass_copy', 1, Len(waves)) = waves
                        /\ Last(pass_copy').center = <<x, 0>>
                        /\ Last(pass_copy').start_frame = f
                        /\ fresh = {Last(pass_copy')}
                   ELSE /\ ncircles' = ncircles
                        /\ pass_copy' = waves
                        /\ fresh = {}]_vars

C3_Witness ==
    /\ frame = 121
    /\ \E w \in Range(waves) : w.start_frame = 120 /\ w.center = <<80, 0>>

\* C4: a wavefront is removed in the tick in which its age is 17, the first
\* age with fadeAlpha = max(0, 0.2 - 0.01*age) <= 0.03, and in no other: at
\* the end of the ticks of age 0..16 it is in the active set, and once
\* removed it is not in the active set again.
C4_ExpiryAtAge17 ==
    /\ [][frame' = frame + 1 =>
            /\ \A w \in Range(pass_copy') :
                  (w \notin Range(waves')) <=> (frame - w.start_frame = 17)
            /\ Range(waves') \subseteq Range(pass_copy')]_vars
    /\ [][\A w \in Range(waves') :
             w \notin Range(waves) =>
                 /\ w.circle = ncircles' /\ ncircles' = ncircles + 1
                 /\ w.start_frame = frame]_vars
    /\ [](Ticked =>
            \A age \in 0..16 :
               LET f == LastFrame - age
               IN  (f >= 0 /\ f % 5 = 0 /\ f <= 120) =>
                      /\ Max(0, 20 - age) > 3
                      /\ \E w \in Range(waves) : w.start_frame = f)
    /\ [](\A w \in Range(waves) : LastFrame - w.start_frame <= 16)

C4_Witness ==
    /\ frame = 18
    /\ Len(removed) = 1 /\ removed[1].start_frame = 0
    /\ \A w \in Range(waves) : w.start_frame # 0

\* C5: after the tick of frame n the trail has min(n+1, 30) entries, the
\* positions of the frames max(0, n-29), ..., n, oldest first.
C5_TrailWindow ==
    /\ Len(particle_trail) <= 30
    /\ Ticked =>
          LET n     == LastFrame
              first == Max(0, n - 29)
          IN  /\ Len(particle_trail) = Min(n + 1, 30)
              /\ \A i \in 1..Len(particle_trail) :
                    particle_trail[i] = <<(first + i - 1) - 40, 0>>

C5_Witness ==
    /\ frame = 50
    /\ Len(particle_trail) = 30
    /\ particle_trail[1] = <<-20, 0>>
    /\ particle_trail[30] = <<9, 0>>

\* C6: the update loop of a tick visits every wavefront that was active when
\* the loop began once, in order; what is left is the visited wavefronts
\* whose removal condition was false, in their original order, and the
\* wavefronts removed (and the circles detached) are the visited ones whose
\* condition was true.
C6_ExactlyOnce ==
    LET gone(w) == RemoveCond(FadeAlpha(LastFrame - w.start_frame), w.center)
        kept(w) == ~gone(w)
    IN  /\ visited = pass_copy
        /\ \A i, j \in 1..Len(visited) : i # j => visited[i] # visited[j]
        /\ waves = SelectSeq(pass_copy, kept)
        /\ removed = SelectSeq(pass_copy, gone)
        /\ [k \in 1..Len(patches) |-> patches[k].id]
              = [k \in 1..Len(waves) |-> waves[k].circle]

C6_Witness ==
    /\ frame = 23
    /\ Len(pass_copy) = 4 /\ Len(visited) = 4
    /\ Len(waves) = 3 /\ Len(removed) = 1
    /\ removed[1] = pass_copy[1]

\* C9: every active wavefront has its centre at y = 0, -4 <= x <= 8, inside
\* [-10, 10] x [-8, 8]; every wavefront that is removed is inside it too and
\* is removed because fadeAlpha <= 0.03.
C9_BoundsBranchDead ==
    /\ \A w \in Range(waves) \cup Range(pass_copy) \cup Range(removed) :
          /\ w.center[2] = 0
          /\ -40 <= w.center[1] /\ w.center[1] <= 80
          /\ -100 <= w.center[1] /\ w.center[1] <= 100
          /\ -80 <= w.center[2] /\ w.center[2] <= 80
    /\ \A w \in Range(removed) :
          Max(0, 20 - (LastFrame - w.start_frame)) <= 3

C9_Witness ==
    /\ frame = 138
    /\ Len(removed) = 1 /\ removed[1].center = <<80, 0>>
    /\ waves = <<>>

\* C10: at the end of the tick of frame n the active set is the wavefronts
\* with start frame f, f mod 5 = 0, 0 <= f <= min(n, 120), n - f <= 16, one
\* of each; it never holds more than 4 and is empty from frame 137 on.
C10_ActiveSetByFrame ==
    /\ Len(waves) <= 4
    /\ Ticked =>
          LET n == LastFrame
              S == {f \in 0..Min(n, 120) : f % 5 = 0 /\ n - f <= 16}
          IN  /\ {w.start_frame : w \in Range(waves)} = S
              /\ Len(waves) = Cardinality(S)
              /\ n >= 137 => waves = <<>>

C10_Witness ==
    /\ frame = FRAMES /\ waves = <<>> /\ ncircles = 25 /\ pc = "running"
====
